---- MODULE Spec2Model ----
(***************************************************************************)
(* Model of simple_ai_processor.py (main and its helpers) and of the       *)
(* provider factory: one invocation of main() is a run; runs follow one    *)
(* another over the same config file, input folder and output folder.      *)
(***************************************************************************)
EXTENDS Integers, Sequences, FiniteSets, TLC

\* ------------------------------------------------------------------ bounds
MaxDocs == 3      \* documents present in the input folder at most
MaxBatch == 2     \* max_batch_size values are -1..MaxBatch, or unset
MaxText == 3      \* characters of a prompt or a content at most

\* ------------------------------------------------------- JSON / Python values
\* A value is tagged with its type, as a JSON value is: None, an integer, or
\* a string.  A string is a sequence of pieces (characters or path components).
None == <<"none">>
StrVal(s) == <<"str", s>>
IntVal(n) == <<"int", n>>

\* Python truthiness of a value (`if x`, `not x`, all([...])).
Truthy(v) ==
    CASE v[1] = "none" -> FALSE
      [] v[1] = "int" -> v[2] # 0
      [] v[1] = "str" -> v[2] # <<>>

Range(s) == {s[j] : j \in 1..Len(s)}

\* ------------------------------------------------------------- dict (config)
\* A dict is the sequence of its <<key, value>> items in insertion order.
HasKey(d, k) == \E j \in 1..Len(d) : d[j][1] = k

\* dict.get(k, default)
DictGet(d, k, default) ==
    IF HasKey(d, k)
    THEN d[CHOOSE j \in 1..Len(d) : d[j][1] = k][2]
    ELSE default

\* DictSet building a new dict that holds the one item only.
DictSet_fresh(d, k, v) == << <<k, v>> >>

\* d[k] = v : replaces the value in place, or appends a new item.
DictSet(d, k, v) ==
    IF HasKey(d, k)
    THEN [j \in 1..Len(d) |-> IF d[j][1] = k THEN <<k, v>> ELSE d[j]]
    ELSE Append(d, <<k, v>>)

\* json.dump(config, f): the text written, as the sequence of its tokens.
JsonDump(d) == << <<"{">> >> \o d \o << <<"}">> >>

\* Whether a file's text is one complete JSON object.
IsJsonObject(text) ==
    /\ Len(text) >= 2
    /\ text[1] = <<"{">>
    /\ text[Len(text)] = <<"}">>
    /\ \A j \in 2..(Len(text) - 1) : Len(text[j]) = 2

JSONDecodeError == << <<"JSONDecodeError">> >>

\* json.load(f): the dict, or JSONDecodeError for an empty or truncated text.
JsonLoad(text) ==
    IF IsJsonObject(text) THEN SubSeq(text, 2, Len(text) - 1) ELSE JSONDecodeError

\* ------------------------------------------------------------------ paths
\* A path is the sequence of its components, the file name split into stem
\* and suffix: in/sub/a.md is <<"in", "sub", "a", "md">>.
FileUniverse ==
    << <<"in", "n", "txt">>, <<"in", "a", "md">>, <<"in", "b", "md">>,
       <<"in", "c", "md">>, <<"in", "sub", "a", "md">> >>

Files == Range(FileUniverse)

\* Path(p).stem
Stem(p) == p[Len(p) - 1]

Suffix(p) == p[Len(p)]

IsPrefix(s, t) == Len(s) <= Len(t) /\ SubSeq(t, 1, Len(s)) = s

\* input_path.rglob("*.md") on file system fs (file -> mtime, 0 when absent):
\* the files under the folder whose name matches, in discovery order.
Rglob(fs, folder) ==
    SelectSeq(FileUniverse,
              LAMBDA p : fs[p] > 0 /\ IsPrefix(folder, p) /\ Len(p) >= Len(folder) + 2
                         /\ Suffix(p) = "md")

\* SortByMtime putting the later of two files of the same time first.
SortByMtime_unstable(fs, s) ==
    LET rank(j) == Cardinality({h \in 1..Len(s) :
                        fs[s[h]] < fs[s[j]] \/ (fs[s[h]] = fs[s[j]] /\ h > j)}) + 1
    IN  [r \in 1..Len(s) |-> s[CHOOSE j \in 1..Len(s) : rank(j) = r]]

\* list.sort(key=mtime): ascending and stable. The place of s[j] in the
\* result is the number of files that are older, or as old and before it.
SortByMtime(fs, s) ==
    LET rank(j) == Cardinality({h \in 1..Len(s) :
                        fs[s[h]] < fs[s[j]] \/ (fs[s[h]] = fs[s[j]] /\ h < j)}) + 1
    IN  [r \in 1..Len(s) |-> s[CHOOSE j \in 1..Len(s) : rank(j) = r]]

\* list.index(x): position of the first occurrence (1-based here).
IndexOf(s, x) == CHOOSE j \in 1..Len(s) : s[j] = x /\ \A h \in 1..(j - 1) : s[h] # x

\* GetInputFiles with the slice taken from last_index, cursor included.
GetInputFiles_inclusive(fs, input_folder, last_processed, max_batch_size) ==
    LET all_files == SortByMtime(fs, Rglob(fs, input_folder))
        file_paths == [j \in 1..Len(all_files) |-> StrVal(all_files[j])]
    IN  IF Truthy(last_processed) /\ last_processed \in Range(file_paths)
        THEN SubSeq(file_paths, IndexOf(file_paths, last_processed), Len(file_paths))
        ELSE file_paths

\* GetInputFiles failing closed: an unknown cursor selects nothing.
GetInputFiles_closed(fs, input_folder, last_processed, max_batch_size) ==
    LET all_files == SortByMtime(fs, Rglob(fs, input_folder))
        file_paths == [j \in 1..Len(all_files) |-> StrVal(all_files[j])]
    IN  IF ~Truthy(last_processed) THEN file_paths
        ELSE IF last_processed \in Range(file_paths)
        THEN SubSeq(file_paths, IndexOf(file_paths, last_processed) + 1, Len(file_paths))
        ELSE <<>>

\* _get_input_files(input_folder, last_processed, max_batch_size)
GetInputFiles(fs, input_folder, last_processed, max_batch_size) ==
    LET all_files == SortByMtime(fs, Rglob(fs, input_folder))
        file_paths == [j \in 1..Len(all_files) |-> StrVal(all_files[j])]
        after == IF Truthy(last_processed) /\ last_processed \in Range(file_paths)
                 THEN SubSeq(file_paths, IndexOf(file_paths, last_processed) + 1,
                             Len(file_paths))
                 ELSE file_paths
    IN  IF Truthy(max_batch_size) /\ max_batch_size[2] > 0
        THEN SubSeq(after, 1, IF max_batch_size[2] < Len(after)
                              THEN max_batch_size[2] ELSE Len(after))
        ELSE after

\* BatchSize of the single-file variant: the configured size is ignored.
BatchSize_single(max_batch_size) == 1

\* batch_size = max_batch_size if max_batch_size and max_batch_size > 0 else 1
BatchSize(max_batch_size) ==
    IF Truthy(max_batch_size) /\ max_batch_size[2] > 0 THEN max_batch_size[2] ELSE 1

\* files_to_process[i:i + batch_size], i a 0-based offset
Slice(files, i, size) ==
    SubSeq(files, i + 1, IF i + size < Len(files) THEN i + size ELSE Len(files))

\* for i in range(0, len(files), size): batch = files[i:i + size]
\* the batches the loop forms when no batch fails, in order
PlanBatches(files, size) ==
    [k \in 1..((Len(files) + size - 1) \div size) |-> Slice(files, (k - 1) * size, size)]

\* GenerateBatchFilename without the single-file case.
GenerateBatchFilename_range(file_paths) ==
    Stem(file_paths[1][2]) \o "_to_" \o Stem(file_paths[Len(file_paths)][2]) \o ".txt"

\* _generate_batch_filename(file_paths)
GenerateBatchFilename(file_paths) ==
    IF Len(file_paths) = 1
    THEN Stem(file_paths[1][2]) \o ".txt"
    ELSE Stem(file_paths[1][2]) \o "_to_" \o Stem(file_paths[Len(file_paths)][2]) \o ".txt"

\* ---------------------------------------------------------------- providers
\* str.lower(), on the characters the identifiers use
LowerChar(c) ==
    CASE c = "G" -> "g" [] c = "P" -> "p" [] c = "T" -> "t" [] c = "O" -> "o"
      [] c = "C" -> "c" [] c = "L" -> "l" [] c = "A" -> "a" [] c = "U" -> "u"
      [] c = "D" -> "d" [] c = "E" -> "e" [] OTHER -> c

Lower(s) == [j \in 1..Len(s) |-> LowerChar(s[j])]

\* str.startswith(prefix)
StartsWith(s, prefix) == IsPrefix(prefix, s)

\* os.getenv(name)
GetEnv(e, name) == e[name]

\* OpenAIProvider.__init__(model)
OpenAIProviderInit(e, model) ==
    IF ~Truthy(GetEnv(e, "OPENAI_API_KEY"))
    THEN <<"ValueError", <<"OPENAI_API_KEY environment variable is not set">> >>
    ELSE <<"OpenAIProvider", model>>

\* ClaudeProviderInit checking the OpenAI credential.
ClaudeProviderInit_copied(e, model) ==
    IF ~Truthy(GetEnv(e, "OPENAI_API_KEY"))
    THEN <<"ValueError", <<"OPENAI_API_KEY environment variable is not set">> >>
    ELSE <<"ClaudeProvider", model>>

\* ClaudeProvider.__init__(model)
ClaudeProviderInit(e, model) ==
    IF ~Truthy(GetEnv(e, "ANTHROPIC_API_KEY"))
    THEN <<"ValueError", <<"ANTHROPIC_API_KEY environment variable is not set">> >>
    ELSE <<"ClaudeProvider", model>>

\* CreateProvider matching the prefixes on the identifier as written.
CreateProvider_exact(e, model) ==
    IF StartsWith(model[2], <<"c", "l", "a", "u", "d", "e">>)
    THEN ClaudeProviderInit(e, model)
    ELSE IF \/ StartsWith(model[2], <<"g", "p", "t">>)
            \/ StartsWith(model[2], <<"o", "1">>)
            \/ StartsWith(model[2], <<"o", "3">>)
         THEN OpenAIProviderInit(e, model)
         ELSE <<"ValueError",
                <<"Unknown model", model[2], "gpt", "o1", "o3", "claude">> >>

\* CreateProvider defaulting to OpenAI for an unknown model.
CreateProvider_default(e, model) ==
    IF StartsWith(Lower(model[2]), <<"c", "l", "a", "u", "d", "e">>)
    THEN ClaudeProviderInit(e, model)
    ELSE OpenAIProviderInit(e, model)

\* create_provider(model)
CreateProvider(e, model) ==
    LET model_lower == Lower(model[2])
    IN  IF StartsWith(model_lower, <<"c", "l", "a", "u", "d", "e">>)
        THEN ClaudeProviderInit(e, model)
        ELSE IF \/ StartsWith(model_lower, <<"g", "p", "t">>)
                \/ StartsWith(model_lower, <<"o", "1">>)
                \/ StartsWith(model_lower, <<"o", "3">>)
             THEN OpenAIProviderInit(e, model)
             ELSE <<"ValueError",
                    <<"Unknown model", model[2], "gpt", "o1", "o3", "claude">> >>

\* ------------------------------------------------------------ token estimates
\* f"{prompt}\n\nContent:\n{content}"
FullPrompt(content, prompt) ==
    prompt \o <<"\n", "\n", "C", "o", "n", "t", "e", "n", "t", ":", "\n">> \o content

\* len(full_prompt) // 4
RoughEstimate(full_prompt) == IntVal(Len(full_prompt) \div 4)

Raise(exception) == <<"raise", exception>>

\* The tokenizer calls of OpenAIProvider.estimate_tokens, lines 46-54: t gives
\* what each library call does, "ok" or the exception it raises.
TiktokenCount(t) ==
    IF t.import_tiktoken # "ok" THEN Raise(t.import_tiktoken)
    ELSE IF t.encoding_for_model \notin {"ok", "KeyError"} THEN Raise(t.encoding_for_model)
    ELSE IF t.encoding_for_model = "KeyError" /\ t.get_encoding # "ok"
         THEN Raise(t.get_encoding)
    ELSE IF t.encode # "ok" THEN Raise(t.encode)
    ELSE IntVal(t.tokens)

\* OpenAIProvider.estimate_tokens(content, prompt): except ImportError only
OpenAIEstimateTokens(t, content, prompt) ==
    LET full_prompt == FullPrompt(content, prompt)
        r == TiktokenCount(t)
    IN  IF r[1] = "raise" /\ r[2] = "ImportError" THEN RoughEstimate(full_prompt) ELSE r

\* ClaudeProvider.estimate_tokens(content, prompt): except Exception
ClaudeEstimateTokens(t, content, prompt) ==
    LET full_prompt == FullPrompt(content, prompt)
    IN  IF t.count_tokens # "ok" THEN RoughEstimate(full_prompt) ELSE IntVal(t.tokens)

\* ------------------------------------------------------------------- state
VARIABLES
    fs,                \* input folder: file -> modification time, 0 when absent
    env,               \* environment variables
    cfgFile,           \* text of the config file, as tokens
    outputs,           \* output folder: set of <<file name, text>>
    pc,                \* position of the process in main()
    config,            \* main: config
    provider,          \* main: provider
    last_processed,    \* main: last_processed
    files_to_process,  \* main: files_to_process
    batch_size,        \* main: batch_size
    i,                 \* main: loop offset i
    output,            \* main: output
    outcome,           \* how the current (or last) run ended, "running" meanwhile
    calls,             \* Provider.process calls made by the run
    reads,             \* documents read by the run
    saves,             \* artifact writes completed by the run
    ckpts,             \* checkpoint writes completed by the run
    prevOutcome,       \* outcome of the run before this one
    prevBatch,         \* batch the run before this one stopped in
    tokenizer,         \* what the tokenizer library calls do when called
    request,           \* content and prompt of an estimate_tokens call
    estimate           \* what the estimate_tokens call gave, None before it

world == <<fs, env, cfgFile, outputs>>
locals == <<config, provider, last_processed, files_to_process, batch_size, i, output>>
history == <<outcome, calls, reads, saves, ckpts, prevOutcome, prevBatch>>
estimation == <<tokenizer, request, estimate>>
vars == <<world, pc, locals, history, estimation>>

\* main: values read from the config (lines 136-141)
input_folder == DictGet(config, "input_folder", None)
output_folder == DictGet(config, "output_folder", None)
prompt == DictGet(config, "prompt", None)
model == DictGet(config, "model", StrVal(<<"g", "p", "t", "-", "4", "o">>))
max_batch_size == DictGet(config, "max_batch_size", None)

\* main: batch = files_to_process[i:i + batch_size]
batch == Slice(files_to_process, i, batch_size)

\* WriteFile that leaves a file of that name as it is.
WriteFile_keep(folder, name, text) ==
    IF \E f \in folder : f[1] = name THEN folder ELSE folder \cup {<<name, text>>}

\* open(path, 'w') ... f.write(text): the file replaced in the folder
WriteFile(folder, name, text) ==
    {f \in folder : f[1] # name} \cup {<<name, text>>}

MdFiles == {p \in Files : Suffix(p) = "md"}
NumDocs(f) == Cardinality({p \in MdFiles : f[p] > 0})

\* ------------------------------------------------------------------- inputs
GPT4O == <<"g", "p", "t", "-", "4", "o">>
CLAUDE_X == <<"c", "l", "a", "u", "d", "e", "-", "x">>
MYSTERY == <<"m", "y", "s", "t", "e", "r", "y", "-", "m", "o", "d", "e", "l">>
ModelIds == {GPT4O, CLAUDE_X, MYSTERY, <<"G", "P", "T", "-", "4">>, <<"o", "1">>,
             <<"O", "3">>, <<"o">>, <<"C", "l", "a", "u", "d", "e">>}

EnvValues == {None, StrVal(<<>>), StrVal(<<"k">>)}
Envs == [{"OPENAI_API_KEY", "ANTHROPIC_API_KEY"} -> EnvValues]

\* Input folders: the notes file is there, up to MaxDocs documents besides.
\* Only the order of the modification times matters to the program, so the
\* times in use are 1..k for some k (ties included).
FileSystems ==
    {f \in [Files -> 0..MaxDocs] :
        /\ f[<<"in", "n", "txt">>] = 1
        /\ NumDocs(f) <= MaxDocs
        /\ \A p \in MdFiles : f[p] > 1 => \E q \in MdFiles : f[q] = f[p] - 1}

\* An item of a config, or nothing when the key is left out.
Item(k, vals) == {<<>>} \cup {<< <<k, v>> >> : v \in vals}

BatchSizes == {IntVal(n) : n \in -1..MaxBatch}
Cursors == {StrVal(p) : p \in MdFiles}

\* Configs of the runs that process documents: cursor and batch size vary.
ProcessingConfigs ==
    {<< <<"input_folder", StrVal(<<"in">>)>>, <<"output_folder", StrVal(<<"out">>)>>,
        <<"prompt", StrVal(<<"p">>)>> >> \o b \o c :
        b \in Item("max_batch_size", BatchSizes),
        c \in Item("last_processed_file", Cursors)}

\* Configs of the runs that may stop at the configuration: fields and model vary.
SetupConfigs ==
    {a \o b \o c \o d \o << <<"max_batch_size", IntVal(1)>>, <<"notes", StrVal(<<"x">>)>> >> :
        a \in Item("input_folder", {StrVal(<<"in">>)}),
        b \in Item("output_folder", {StrVal(<<"out">>), StrVal(<<>>)}),
        c \in Item("prompt", {StrVal(<<"p">>), None}),
        d \in Item("model", {StrVal(m) : m \in ModelIds})}

BothKeys == [k \in {"OPENAI_API_KEY", "ANTHROPIC_API_KEY"} |-> StrVal(<<"k">>)]

TwoDocs ==
    [p \in Files |-> IF p \in {<<"in", "n", "txt">>, <<"in", "a", "md">>} THEN 1
                     ELSE IF p = <<"in", "b", "md">> THEN 2 ELSE 0]

\* What each tokenizer library call does: returns ("ok") or raises.
Tokenizers ==
    [import_tiktoken : {"ok", "ImportError"},
     encoding_for_model : {"ok", "KeyError", "ValueError"},
     get_encoding : {"ok", "ValueError"},
     encode : {"ok", "ValueError"},
     count_tokens : {"ok", "AttributeError"},
     tokens : 1..2]

Texts == UNION {[1..n -> {"x"}] : n \in 0..MaxText}
Requests == [content : Texts, prompt : Texts]

NoRequest == [content |-> <<>>, prompt |-> <<>>]
Installed ==
    [import_tiktoken |-> "ok", encoding_for_model |-> "ok", get_encoding |-> "ok",
     encode |-> "ok", count_tokens |-> "ok", tokens |-> 1]

\* No process is running, nothing has been written.
AtRest ==
    /\ outputs = {}
    /\ pc = "idle"
    /\ config = <<>>
    /\ provider = None
    /\ last_processed = None
    /\ files_to_process = <<>>
    /\ batch_size = 1
    /\ i = 0
    /\ output = <<>>
    /\ outcome = "none"
    /\ calls = 0 /\ reads = 0 /\ saves = 0 /\ ckpts = 0
    /\ prevOutcome = "none"
    /\ prevBatch = <<>>

Init ==
    /\ \/ /\ fs \in FileSystems
          /\ env = BothKeys
          /\ cfgFile \in {JsonDump(c) : c \in ProcessingConfigs}
       \/ /\ fs = TwoDocs
          /\ env \in Envs
          /\ cfgFile \in {JsonDump(c) : c \in SetupConfigs}
    /\ AtRest
    /\ tokenizer = Installed
    /\ request = NoRequest
    /\ estimate = None

\* ------------------------------------------------------------------ actions
Running == {"load", "validate", "provider", "enumerate", "read", "process",
            "save_output", "save_config", "dump", "failed"}

\* The batch steps that come before the batch's checkpoint write.
BeforeCheckpoint == {"read", "process", "save_output", "save_config"}

\* The outcomes a run is remembered by when the next run starts.
Remembered == {"provider_failed", "interrupted", "completed", "no_files"}

\* python simple_ai_processor.py --config config.json : a new process
Invoke ==
    /\ pc \in {"idle", "done", "crashed"}
    /\ pc' = "load"
    /\ config' = <<>> /\ provider' = None /\ last_processed' = None
    /\ files_to_process' = <<>> /\ batch_size' = 1 /\ i' = 0 /\ output' = <<>>
    /\ prevOutcome' = IF outcome \in Remembered THEN outcome ELSE "other"
    /\ prevBatch' = IF outcome \in {"provider_failed", "interrupted"} THEN batch ELSE <<>>
    /\ outcome' = "running"
    /\ calls' = 0 /\ reads' = 0 /\ saves' = 0 /\ ckpts' = 0
    /\ UNCHANGED world
    /\ UNCHANGED estimation

\* main, lines 134-141: _load_config and the config.get calls
LoadConfig ==
    /\ pc = "load"
    /\ IF JsonLoad(cfgFile) = JSONDecodeError
       THEN /\ pc' = "done"
            /\ outcome' = "uncaught"
            /\ UNCHANGED <<config, last_processed>>
       ELSE /\ config' = JsonLoad(cfgFile)
            /\ last_processed' = DictGet(config', "last_processed_file", None)
            /\ pc' = "validate"
            /\ UNCHANGED outcome
    /\ UNCHANGED <<world, provider, files_to_process, batch_size, i, output,
                   calls, reads, saves, ckpts, prevOutcome, prevBatch>>
    /\ UNCHANGED estimation

\* main, lines 144-146
ValidateConfig ==
    /\ pc = "validate"
    /\ IF ~(Truthy(input_folder) /\ Truthy(output_folder) /\ Truthy(prompt))
       THEN pc' = "done" /\ outcome' = "config_error"
       ELSE pc' = "provider" /\ UNCHANGED outcome
    /\ UNCHANGED <<world, locals, calls, reads, saves, ckpts, prevOutcome, prevBatch>>
    /\ UNCHANGED estimation

\* main, lines 149-153
MakeProvider ==
    /\ pc = "provider"
    /\ LET r == CreateProvider(env, model)
       IN  IF r[1] = "ValueError"
           THEN pc' = "done" /\ outcome' = "provider_error" /\ UNCHANGED provider
           ELSE pc' = "enumerate" /\ provider' = r /\ UNCHANGED outcome
    /\ UNCHANGED <<world, config, last_processed, files_to_process, batch_size, i, output,
                   calls, reads, saves, ckpts, prevOutcome, prevBatch>>
    /\ UNCHANGED estimation

\* main, lines 156-165
Enumerate ==
    /\ pc = "enumerate"
    /\ files_to_process' = GetInputFiles(fs, input_folder[2], last_processed, None)
    /\ IF files_to_process' = <<>>
       THEN pc' = "done" /\ outcome' = "no_files" /\ UNCHANGED batch_size
       ELSE pc' = "read" /\ batch_size' = BatchSize(max_batch_size) /\ UNCHANGED outcome
    /\ UNCHANGED <<world, config, provider, last_processed, i, output,
                   calls, reads, saves, ckpts, prevOutcome, prevBatch>>
    /\ UNCHANGED estimation

\* ReadBatch with the cursor moved before the batch is processed.
ReadBatch_eager ==
    /\ pc = "read"
    /\ reads' = reads + Len(batch)
    /\ cfgFile' = JsonDump(DictSet(config, "last_processed_file", batch[Len(batch)]))
    /\ pc' = "process"
    /\ UNCHANGED <<fs, env, outputs, locals, outcome, calls, saves, ckpts, prevOutcome,
                   prevBatch>>
    /\ UNCHANGED estimation

\* _process_batch_with_ai, lines 34-43: the batch's documents are read
ReadBatch ==
    /\ pc = "read"
    /\ reads' = reads + Len(batch)
    /\ pc' = "process"
    /\ UNCHANGED <<world, locals, outcome, calls, saves, ckpts, prevOutcome, prevBatch>>
    /\ UNCHANGED estimation

\* open() or read() of a document raises
ReadBatchFails ==
    /\ pc = "read"
    /\ pc' = "failed"
    /\ outcome' = "read_failed"
    /\ UNCHANGED <<world, locals, calls, reads, saves, ckpts, prevOutcome, prevBatch>>
    /\ UNCHANGED estimation

\* _process_batch_with_ai, line 46: provider.process returns the response
ProcessBatch ==
    /\ pc = "process"
    /\ calls' = calls + 1
    /\ output' = <<provider[1], prompt, batch>>
    /\ pc' = "save_output"
    /\ UNCHANGED <<world, config, provider, last_processed, files_to_process, batch_size,
                   i, outcome, reads, saves, ckpts, prevOutcome, prevBatch>>
    /\ UNCHANGED estimation

\* ProcessBatchFails with the config saved all the same (as in a finally block).
ProcessBatchFails_finally ==
    /\ pc = "process"
    /\ calls' = calls + 1
    /\ cfgFile' = JsonDump(DictSet(config, "last_processed_file", batch[Len(batch)]))
    /\ pc' = "failed"
    /\ outcome' = "provider_failed"
    /\ UNCHANGED <<fs, env, outputs, locals, reads, saves, ckpts, prevOutcome, prevBatch>>
    /\ UNCHANGED estimation

\* ProcessBatchFails that goes on with the next batch (continue, not break).
ProcessBatchFails_continue ==
    /\ pc = "process"
    /\ calls' = calls + 1
    /\ i' = i + batch_size
    /\ IF i' < Len(files_to_process)
       THEN pc' = "read" /\ UNCHANGED outcome
       ELSE pc' = "failed" /\ outcome' = "provider_failed"
    /\ UNCHANGED <<world, config, provider, last_processed, files_to_process, batch_size,
                   output, reads, saves, ckpts, prevOutcome, prevBatch>>
    /\ UNCHANGED estimation

\* provider.process raises (authentication, network, quota)
ProcessBatchFails ==
    /\ pc = "process"
    /\ calls' = calls + 1
    /\ pc' = "failed"
    /\ outcome' = "provider_failed"
    /\ UNCHANGED <<world, locals, reads, saves, ckpts, prevOutcome, prevBatch>>
    /\ UNCHANGED estimation

\* SaveOutput with the write error swallowed: nothing written, the run goes on.
SaveOutput_swallowed ==
    /\ pc = "save_output"
    /\ pc' = "save_config"
    /\ UNCHANGED <<world, locals, history, estimation>>

\* main, lines 182-185: _generate_batch_filename and _save_output
SaveOutput ==
    /\ pc = "save_output"
    /\ outputs' = WriteFile(outputs, GenerateBatchFilename(batch), output)
    /\ saves' = saves + 1
    /\ pc' = "save_config"
    /\ UNCHANGED <<fs, env, cfgFile, locals, outcome, calls, reads, ckpts, prevOutcome,
                   prevBatch>>
    /\ UNCHANGED estimation

\* _save_output raises: before the file is opened, or after open() truncated it
SaveOutputFails ==
    /\ pc = "save_output"
    /\ outputs' \in {outputs, WriteFile(outputs, GenerateBatchFilename(batch), <<>>)}
    /\ pc' = "failed"
    /\ outcome' = "write_failed"
    /\ UNCHANGED <<fs, env, cfgFile, locals, calls, reads, saves, ckpts, prevOutcome,
                   prevBatch>>
    /\ UNCHANGED estimation

\* OpenConfig recording the first file of the batch.
OpenConfig_first ==
    /\ pc = "save_config"
    /\ config' = DictSet(config, "last_processed_file", batch[1])
    /\ cfgFile' = <<>>
    /\ pc' = "dump"
    /\ UNCHANGED <<fs, env, outputs, provider, last_processed, files_to_process,
                   batch_size, i, output, history>>
    /\ UNCHANGED estimation

\* main, line 190, and _save_config, line 90: open(config_path, 'w') truncates
OpenConfig ==
    /\ pc = "save_config"
    /\ config' = DictSet(config, "last_processed_file", batch[Len(batch)])
    /\ cfgFile' = <<>>
    /\ pc' = "dump"
    /\ UNCHANGED <<fs, env, outputs, provider, last_processed, files_to_process,
                   batch_size, i, output, history>>
    /\ UNCHANGED estimation

\* open(config_path, 'w') raises: the file is as it was
OpenConfigFails ==
    /\ pc = "save_config"
    /\ config' = DictSet(config, "last_processed_file", batch[Len(batch)])
    /\ pc' = "failed"
    /\ outcome' = "checkpoint_failed"
    /\ UNCHANGED <<world, provider, last_processed, files_to_process, batch_size, i, output,
                   calls, reads, saves, ckpts, prevOutcome, prevBatch>>
    /\ UNCHANGED estimation

\* Proper prefixes of a text: what a write that did not finish leaves behind.
Truncations(text) == {SubSeq(text, 1, n) : n \in 0..(Len(text) - 1)}

\* DumpConfig listing the folder again after each batch.
DumpConfig_rescan ==
    /\ pc = "dump"
    /\ cfgFile' = JsonDump(config)
    /\ ckpts' = ckpts + 1
    /\ files_to_process' =
           GetInputFiles(fs, input_folder[2], batch[Len(batch)], None)
    /\ i' = 0
    /\ IF files_to_process' # <<>>
       THEN pc' = "read" /\ UNCHANGED outcome
       ELSE pc' = "done" /\ outcome' = "completed"
    /\ UNCHANGED <<fs, env, outputs, config, provider, last_processed,
                   batch_size, output, calls, reads, saves, prevOutcome, prevBatch>>
    /\ UNCHANGED estimation

\* _save_config, line 91: json.dump writes the text and the file is closed;
\* the loop goes on (line 167) or ends (line 199)
DumpConfig ==
    /\ pc = "dump"
    /\ cfgFile' = JsonDump(config)
    /\ ckpts' = ckpts + 1
    /\ i' = i + batch_size
    /\ IF i' < Len(files_to_process)
       THEN pc' = "read" /\ UNCHANGED outcome
       ELSE pc' = "done" /\ outcome' = "completed"
    /\ UNCHANGED <<fs, env, outputs, config, provider, last_processed, files_to_process,
                   batch_size, output, calls, reads, saves, prevOutcome, prevBatch>>
    /\ UNCHANGED estimation

\* a write of json.dump raises: the file keeps what was written so far
DumpConfigFails ==
    /\ pc = "dump"
    /\ cfgFile' \in Truncations(JsonDump(config))
    /\ pc' = "failed"
    /\ outcome' = "checkpoint_failed"
    /\ UNCHANGED <<fs, env, outputs, locals, calls, reads, saves, ckpts, prevOutcome,
                   prevBatch>>
    /\ UNCHANGED estimation

\* main, lines 193-199: the except block breaks out of the loop
HandleError ==
    /\ pc = "failed"
    /\ pc' = "done"
    /\ UNCHANGED <<world, locals, history>>
    /\ UNCHANGED estimation

\* The process is terminated (killed, power loss) at any point of a run; a
\* write under way leaves the part of the text that reached the file.
Crash ==
    /\ pc \in Running
    /\ pc' = "crashed"
    /\ outcome' = IF pc = "failed" THEN outcome
                  ELSE IF pc \in BeforeCheckpoint THEN "interrupted"
                  ELSE IF pc = "dump" THEN "killed_in_checkpoint"
                  ELSE "killed"
    /\ cfgFile' \in IF pc = "dump" THEN Truncations(JsonDump(config)) ELSE {cfgFile}
    /\ outputs' \in IF pc = "save_output"
                    THEN {outputs, WriteFile(outputs, GenerateBatchFilename(batch), <<>>)}
                    ELSE {outputs}
    /\ UNCHANGED <<fs, env, locals, calls, reads, saves, ckpts, prevOutcome,
                   prevBatch>>
    /\ UNCHANGED estimation

Next ==
    \/ Invoke \/ LoadConfig \/ ValidateConfig \/ MakeProvider \/ Enumerate
    \/ ReadBatch \/ ReadBatchFails \/ ProcessBatch \/ ProcessBatchFails
    \/ SaveOutput \/ SaveOutputFails \/ OpenConfig \/ OpenConfigFails
    \/ DumpConfig \/ DumpConfigFails \/ HandleError \/ Crash

Spec == Init /\ [][Next]_vars

\* ------------------------------------------------- runs repeated until done
\* The folder and the config stay as they are, but for the cursor; a run is
\* started again whenever the one before has ended; reading, the provider and
\* the writes may fail, and none of them fails forever.
InitRerun ==
    /\ fs \in {f \in FileSystems : NumDocs(f) <= 2}
    /\ env = BothKeys
    /\ cfgFile \in {JsonDump(c) : c \in ProcessingConfigs}
    /\ AtRest
    /\ tokenizer = Installed
    /\ request = NoRequest
    /\ estimate = None

NextRerun ==
    \/ Invoke \/ LoadConfig \/ ValidateConfig \/ MakeProvider \/ Enumerate
    \/ ReadBatch \/ ReadBatchFails \/ ProcessBatch \/ ProcessBatchFails
    \/ SaveOutput \/ SaveOutputFails \/ OpenConfig \/ OpenConfigFails
    \/ DumpConfig \/ DumpConfigFails \/ HandleError

FairRerun ==
    /\ WF_vars(Invoke) /\ WF_vars(LoadConfig) /\ WF_vars(ValidateConfig)
    /\ WF_vars(MakeProvider) /\ WF_vars(Enumerate) /\ WF_vars(HandleError)
    /\ SF_vars(ReadBatch) /\ SF_vars(ProcessBatch) /\ SF_vars(SaveOutput)
    /\ SF_vars(OpenConfig) /\ SF_vars(DumpConfig)

SpecRerun == InitRerun /\ [][NextRerun]_vars /\ FairRerun

\* ------------------------------------------ one run, the folder being added to
\* Somebody puts a new document into the input folder.
AddDocument ==
    /\ NumDocs(fs) < MaxDocs
    /\ \E p \in MdFiles, t \in 1..MaxDocs :
          /\ fs[p] = 0
          /\ fs' = [fs EXCEPT ![p] = t]
    /\ UNCHANGED <<env, cfgFile, outputs, pc, locals, history, estimation>>

\* The first run
Start == pc = "idle" /\ Invoke

\* A step of the running process: every operation returns or raises.
RunStep ==
    \/ LoadConfig \/ ValidateConfig \/ MakeProvider \/ Enumerate
    \/ ReadBatch \/ ReadBatchFails \/ ProcessBatch \/ ProcessBatchFails
    \/ SaveOutput \/ SaveOutputFails \/ OpenConfig \/ OpenConfigFails
    \/ DumpConfig \/ DumpConfigFails \/ HandleError

InitSnapshot ==
    /\ fs \in {f \in FileSystems : NumDocs(f) = MaxDocs - 1}
    /\ env = BothKeys
    /\ cfgFile \in {JsonDump(c) : c \in {d \in ProcessingConfigs :
                                            ~HasKey(d, "last_processed_file")}}
    /\ AtRest
    /\ tokenizer = Installed
    /\ request = NoRequest
    /\ estimate = None

NextSnapshot == Start \/ RunStep \/ AddDocument

SpecSnapshot == InitSnapshot /\ [][NextSnapshot]_vars /\ WF_vars(RunStep)

\* ------------------------------------------- estimate_tokens, called directly
\* A provider of either variant has been constructed; the caller has a prompt
\* and a content, and the tokenizer calls behave in one of the ways they can.
InitEstimate ==
    /\ fs = TwoDocs
    /\ env = BothKeys
    /\ cfgFile \in {JsonDump(c) : c \in ProcessingConfigs}
    /\ outputs = {}
    /\ pc = "idle"
    /\ config = <<>>
    /\ provider \in {CreateProvider(env, StrVal(m)) : m \in {GPT4O, CLAUDE_X}}
    /\ last_processed = None
    /\ files_to_process = <<>>
    /\ batch_size = 1
    /\ i = 0
    /\ output = <<>>
    /\ outcome = "none"
    /\ calls = 0 /\ reads = 0 /\ saves = 0 /\ ckpts = 0
    /\ prevOutcome = "none"
    /\ prevBatch = <<>>
    /\ tokenizer \in Tokenizers
    /\ request \in Requests
    /\ estimate = None

\* provider.estimate_tokens(content, prompt) on an OpenAIProvider
EstimateTokensOpenAI ==
    /\ provider[1] = "OpenAIProvider"
    /\ estimate = None
    /\ estimate' = OpenAIEstimateTokens(tokenizer, request.content, request.prompt)
    /\ UNCHANGED <<world, pc, locals, history, tokenizer, request>>

\* provider.estimate_tokens(content, prompt) on a ClaudeProvider
EstimateTokensClaude ==
    /\ provider[1] = "ClaudeProvider"
    /\ estimate = None
    /\ estimate' = ClaudeEstimateTokens(tokenizer, request.content, request.prompt)
    /\ UNCHANGED <<world, pc, locals, history, tokenizer, request>>

NextEstimate == EstimateTokensOpenAI \/ EstimateTokensClaude

SpecEstimate == InitEstimate /\ [][NextEstimate]_vars

\* ------------------------------------------------------------------- claims
InFolder == <<"in">>

\* The discovered documents of the input folder, oldest first.
SortedDocuments == GetInputFiles(fs, InFolder, None, None)

\* The cursor a config file's text holds (None when the text does not load).
StoredCursor(text) ==
    IF IsJsonObject(text) THEN DictGet(JsonLoad(text), "last_processed_file", None)
    ELSE None

\* The run has enumerated its backlog (main, line 156).
Enumerated == files_to_process # <<>> \/ outcome = "no_files"

\* The run has just enumerated its backlog (the state _get_input_files returns in).
JustEnumerated == (pc = "read" /\ i = 0) \/ outcome = "no_files"

RECURSIVE Concat(_)
Concat(ss) == IF ss = <<>> THEN <<>> ELSE Head(ss) \o Concat(Tail(ss))

\* C6: for a cursor equal to the Nth document of the sorted list, the backlog
\* is exactly the documents after position N, in order: len(all) - N of them,
\* none of them the cursor or a document before it; and a run that loaded such
\* a cursor enumerates that backlog.
C6_CursorSuffix ==
    LET all == SortedDocuments
    IN  /\ pc = "idle" =>
              \A N \in 1..Len(all) :
                  LET r == GetInputFiles(fs, InFolder, all[N], None)
                  IN  /\ Len(r) = Len(all) - N
                      /\ \A j \in 1..Len(r) : r[j] = all[N + j]
                      /\ \A j \in 1..N : all[j] \notin Range(r)
        /\ (JustEnumerated /\ last_processed # None) =>
              \A N \in 1..Len(all) :
                  last_processed = all[N]
                      => /\ files_to_process = SubSeq(all, N + 1, Len(all))
                         /\ Len(files_to_process) = Len(all) - N
                         /\ \A j \in 1..N : all[j] \notin Range(files_to_process)

C6_Witness ==
    /\ pc = "read"
    /\ Len(SortedDocuments) = 3
    /\ last_processed = SortedDocuments[1]
    /\ files_to_process = <<SortedDocuments[2], SortedDocuments[3]>>

\* C7: with no cursor, or a cursor that is not the path of a discovered
\* document, the backlog is the full sorted list, and the run starts with the
\* oldest document.
C7_FailOpen ==
    LET all == SortedDocuments
    IN  /\ pc = "idle" =>
              \A c \in {None, StrVal(<<>>)} \cup Cursors :
                  c \notin Range(all) => GetInputFiles(fs, InFolder, c, None) = all
        /\ (JustEnumerated /\ last_processed \notin Range(all))
              => /\ files_to_process = all
                 /\ pc = "read" => batch[1] = all[1]

C7_Witness ==
    /\ pc = "read" /\ i = 0
    /\ last_processed \in Cursors
    /\ last_processed \notin Range(SortedDocuments)
    /\ Len(files_to_process) = 2

\* C8: the batches are non-empty and contiguous, their concatenation is the
\* backlog, every batch but the last has max_batch_size documents (one when
\* max_batch_size is unset or <= 0), an empty backlog gives no batch, and the
\* batch a run works on is the batch of that partition at its position.
C8_BatchPartition ==
    LET size == IF max_batch_size[1] = "int" /\ max_batch_size[2] > 0
                THEN max_batch_size[2] ELSE 1
        bs == PlanBatches(files_to_process, BatchSize(max_batch_size))
    IN  /\ JustEnumerated =>
              /\ Concat(bs) = files_to_process
              /\ \A k \in 1..Len(bs) : Len(bs[k]) >= 1
              /\ \A k \in 1..(Len(bs) - 1) : Len(bs[k]) = size
              /\ Len(bs) > 0 => Len(bs[Len(bs)]) <= size
              /\ files_to_process = <<>> => bs = <<>>
        /\ pc \in {"read", "process", "save_output", "save_config", "dump"}
              => /\ batch_size = size
                 /\ i % size = 0
                 /\ batch = bs[(i \div size) + 1]

C8_Witness ==
    /\ pc = "read"
    /\ max_batch_size = IntVal(2)
    /\ Len(files_to_process) = 3
    /\ i = 2
    /\ Len(batch) = 1

\* The artifact name a batch is to get: <base>.txt for one document,
\* <first base>_to_<last base>.txt for several.
BaseName(doc) == doc[2][Len(doc[2]) - 1]
ArtifactName(b) ==
    IF Len(b) = 1 THEN BaseName(b[1]) \o ".txt"
    ELSE BaseName(b[1]) \o "_to_" \o BaseName(b[Len(b)]) \o ".txt"

ArtifactNames == {o[1] : o \in outputs}

DocA == StrVal(<<"in", "a", "md">>)
DocB == StrVal(<<"in", "b", "md">>)
DocC == StrVal(<<"in", "c", "md">>)

\* The folder of the end-to-end scenario: a.md oldest, b.md, c.md newest.
FolderABC ==
    /\ fs[DocA[2]] = 1 /\ fs[DocB[2]] = 2 /\ fs[DocC[2]] = 3
    /\ fs[<<"in", "sub", "a", "md">>] = 0

ScenarioABC ==
    FolderABC /\ max_batch_size = IntVal(2) /\ last_processed = None /\ Enumerated

\* C10: once a batch's artifact is written, the output folder holds the
\* response under <base>.txt (one document) or <first>_to_<last>.txt
\* (several); with a.md, b.md, c.md, max_batch_size 2 and no checkpoint, the
\* batches are [a, b] then [c], the artifacts a_to_b.txt then c.txt, and the
\* checkpoint ends at c.md.
C10_ArtifactNaming ==
    /\ pc \in {"save_config", "dump"} => <<ArtifactName(batch), output>> \in outputs
    /\ ScenarioABC =>
          /\ PlanBatches(files_to_process, batch_size) = <<<<DocA, DocB>>, <<DocC>>>>
          /\ (pc = "save_config" /\ i = 0) =>
                 /\ "a_to_b.txt" \in ArtifactNames
                 /\ \A o \in outputs : o[1] = "c.txt" => o[2] = <<>>
          /\ (pc = "save_config" /\ i = 2) => {"a_to_b.txt", "c.txt"} \subseteq ArtifactNames
          /\ outcome = "completed" =>
                 /\ ArtifactNames = {"a_to_b.txt", "c.txt"}
                 /\ \A o \in outputs : o[2] # <<>>
                 /\ StoredCursor(cfgFile) = DocC

C10_Witness ==
    /\ ScenarioABC
    /\ outcome = "completed"
    /\ ArtifactNames = {"a_to_b.txt", "c.txt"}
    /\ StoredCursor(cfgFile) = DocC

\* Identifiers of each vendor's family, and the others among ModelIds.
VendorA == {GPT4O, <<"G", "P", "T", "-", "4">>, <<"o", "1">>, <<"O", "3">>}
VendorB == {CLAUDE_X, <<"C", "l", "a", "u", "d", "e">>}

NoCredential(name) == env[name] \in {None, StrVal(<<>>)}

MissingRequired ==
    \E k \in {"input_folder", "output_folder", "prompt"} : ~HasKey(config, k)

ConfigLevelError ==
    /\ config # <<>>
    /\ \/ MissingRequired
       \/ model[2] \notin VendorA \cup VendorB
       \/ model[2] \in VendorA /\ NoCredential("OPENAI_API_KEY")
       \/ model[2] \in VendorB /\ NoCredential("ANTHROPIC_API_KEY")

CursorBeforeBatch == IF i = 0 THEN last_processed ELSE files_to_process[i]

\* C1: when Provider.process fails on a batch, the config file keeps a
\* loadable config whose cursor is the last document of the batch before (the
\* loaded cursor for the first batch), and the next run over the same folder
\* and config takes the failed batch as its first batch.
C1_FailureNonAdvancement ==
    /\ outcome = "provider_failed" =>
          /\ IsJsonObject(cfgFile)
          /\ StoredCursor(cfgFile) = CursorBeforeBatch
    /\ (prevOutcome = "provider_failed" /\ pc = "validate") =>
          last_processed = StoredCursor(cfgFile)
    /\ (prevOutcome = "provider_failed" /\ Enumerated) =>
          /\ files_to_process # <<>>
          /\ Slice(files_to_process, 0, batch_size) = prevBatch

C1_Witness ==
    /\ prevOutcome = "provider_failed"
    /\ pc = "read" /\ i = 0
    /\ batch = prevBatch
    /\ Len(batch) = 2
    /\ last_processed # None
    /\ last_processed \in Range(SortedDocuments)

\* C2: after a run in which every batch succeeded, the next run over the
\* same folder finds nothing to process: it reads no document, calls no
\* provider and writes neither artifact nor checkpoint.
C2_SecondRunEmpty ==
    prevOutcome \in {"completed", "no_files"} =>
        /\ pc \in {"load", "validate", "provider", "enumerate", "done", "crashed"}
        /\ pc = "done" => outcome = "no_files"
        /\ files_to_process = <<>>
        /\ reads = 0 /\ calls = 0 /\ saves = 0 /\ ckpts = 0

C2_Witness ==
    /\ prevOutcome = "completed"
    /\ pc = "done"
    /\ outcome = "no_files"
    /\ Len(SortedDocuments) = 3
    /\ max_batch_size = IntVal(2)

InBatch == {"read", "process", "save_output", "save_config", "dump"}

BatchFailures == {"read_failed", "provider_failed", "write_failed"}

\* C3: a run has one batch in flight at a time, and the batches before it
\* are complete: each was read, processed, saved and checkpointed, the config
\* file holding the last document of the batch before when a batch starts.
C3_OneBatchAtATime ==
    /\ ckpts <= saves /\ saves <= calls /\ calls <= ckpts + 1
    /\ pc \in InBatch =>
          /\ i = ckpts * batch_size
          /\ reads = i + (IF pc = "read" THEN 0 ELSE Len(batch))
          /\ calls = ckpts + (IF pc \in {"read", "process"} THEN 0 ELSE 1)
          /\ saves = ckpts + (IF pc \in {"save_config", "dump"} THEN 1 ELSE 0)
    /\ (pc \in BeforeCheckpoint /\ i > 0) => StoredCursor(cfgFile) = files_to_process[i]

\* C3: after the first batch that fails in reading, processing or saving, the
\* run only ends: no document is read, no provider called, no artifact and no
\* config written until a new run starts.
HaltedStep ==
    outcome \in BatchFailures =>
        /\ pc' \in {"done", "crashed", "load"}
        /\ pc' # "load" => UNCHANGED <<world, locals, calls, reads, saves, ckpts>>

C3_HaltAtFirstFailure == [][HaltedStep]_vars

\* C3: batches run strictly one after another and the run halts at the first
\* failing batch.
C3_Sequential == []C3_OneBatchAtATime /\ C3_HaltAtFirstFailure

C3_Witness ==
    /\ pc = "done"
    /\ outcome \in BatchFailures
    /\ ckpts = 1
    /\ calls = 2
    /\ Len(files_to_process) = 3
    /\ batch_size = 1
    /\ StoredCursor(cfgFile) = files_to_process[1]

\* C5: when the process is terminated in a batch before the batch's checkpoint
\* write, the config file still loads and holds the cursor of the last
\* completed batch (the loaded cursor when there is none), the run having
\* written one checkpoint per completed batch and none for the interrupted
\* one; the next run starts with the interrupted batch.
C5_SafeRerun ==
    /\ outcome = "interrupted" =>
          /\ IsJsonObject(cfgFile)
          /\ StoredCursor(cfgFile) = CursorBeforeBatch
          /\ i = ckpts * batch_size
    /\ (prevOutcome = "interrupted" /\ Enumerated) =>
          /\ files_to_process # <<>>
          /\ Slice(files_to_process, 0, batch_size) = prevBatch
    /\ (prevOutcome = "interrupted" /\ pc \in {"process", "save_output"} /\ i = 0) =>
          reads = Len(prevBatch)

C5_Witness ==
    /\ prevOutcome = "interrupted"
    /\ pc = "save_output" /\ i = 0
    /\ batch = prevBatch
    /\ \E o \in outputs : o[1] = ArtifactName(batch) /\ o[2] = output
    /\ StoredCursor(cfgFile) \in Range(SortedDocuments)

\* C4: a crash during a checkpoint write leaves the config file holding the
\* complete previous config or the complete new one.
C4_AtomicCheckpoint ==
    outcome = "killed_in_checkpoint" =>
        /\ IsJsonObject(cfgFile)
        /\ StoredCursor(cfgFile) \in {CursorBeforeBatch, batch[Len(batch)]}

\* The items of a config other than the cursor, in order.
OtherFields(d) == SelectSeq(d, LAMBDA it : it[1] # "last_processed_file")

C11_Frame ==
    (config # <<>> /\ IsJsonObject(cfgFile))
        => OtherFields(JsonLoad(cfgFile)) = OtherFields(config)

C11_Step ==
    /\ (pc = "load" /\ pc' = "validate")
          => OtherFields(config') = OtherFields(JsonLoad(cfgFile))
    /\ (config # <<>> /\ pc' # "load")
          => OtherFields(config') = OtherFields(config)
    /\ ckpts' = ckpts + 1
          => /\ IsJsonObject(cfgFile')
             /\ StoredCursor(cfgFile') = batch[Len(batch)]
             /\ OtherFields(JsonLoad(cfgFile')) = OtherFields(config)

\* C11: a checkpoint write stores the config with last_processed_file set to
\* the last document of the batch just completed and every other field, known
\* or not, as it was loaded at the start of the run: the loaded fields stay as
\* they are in memory for the whole run, and every loadable config file of the
\* run holds them.
C11_CheckpointFrame == []C11_Frame /\ [][C11_Step]_vars

C11_Witness ==
    /\ ckpts = 1
    /\ pc = "read"
    /\ HasKey(config, "notes")
    /\ HasKey(config, "model")
    /\ cfgFile = JsonDump(config)
    /\ StoredCursor(cfgFile) = files_to_process[i]
    /\ Len(OtherFields(config)) = Len(config) - 1

\* The error create_provider raises for an identifier it does not recognize:
\* it names the identifier and the prefixes.
UnknownModelError(m) ==
    <<"ValueError", <<"Unknown model", m, "gpt", "o1", "o3", "claude">> >>

OwnCredential(m) == IF m \in VendorA THEN "OPENAI_API_KEY" ELSE "ANTHROPIC_API_KEY"

\* C14: constructing a variant fails exactly when its own credential variable
\* (OPENAI_API_KEY for OpenAI, ANTHROPIC_API_KEY for Claude) is unset or
\* empty; the other vendor's variable neither makes it fail nor succeed.
C14_CredentialPerVendor ==
    /\ pc = "idle" =>
          \A e \in Envs :
              /\ \A m \in VendorA \cup VendorB :
                    (CreateProvider(e, StrVal(m))[1] = "ValueError")
                        <=> e[OwnCredential(m)] \in {None, StrVal(<<>>)}
              /\ (OpenAIProviderInit(e, StrVal(GPT4O))[1] = "ValueError")
                    <=> e["OPENAI_API_KEY"] \in {None, StrVal(<<>>)}
              /\ (ClaudeProviderInit(e, StrVal(CLAUDE_X))[1] = "ValueError")
                    <=> e["ANTHROPIC_API_KEY"] \in {None, StrVal(<<>>)}
    /\ pc = "enumerate" => ~NoCredential(OwnCredential(model[2]))
    /\ (outcome = "provider_error" /\ model[2] \in VendorA \cup VendorB)
          => NoCredential(OwnCredential(model[2]))

C14_Witness ==
    /\ pc = "enumerate"
    /\ provider[1] = "ClaudeProvider"
    /\ NoCredential("OPENAI_API_KEY")
    /\ ~NoCredential("ANTHROPIC_API_KEY")

\* Exact tokenization is available to the provider's estimate_tokens.
ExactAvailable ==
    IF provider[1] = "OpenAIProvider"
    THEN /\ tokenizer.import_tiktoken = "ok"
         /\ \/ tokenizer.encoding_for_model = "ok"
            \/ tokenizer.encoding_for_model = "KeyError" /\ tokenizer.get_encoding = "ok"
         /\ tokenizer.encode = "ok"
    ELSE tokenizer.count_tokens = "ok"

\* C13: estimate_tokens never fails, for either variant: it returns the exact
\* count when tokenization works, and len(payload) // 4 whenever the tokenizer
\* is unavailable for any reason (library missing, lookup or encoding raising).
C13_EstimateNeverFails ==
    estimate # None =>
        /\ estimate[1] = "int"
        /\ estimate[2] = IF ExactAvailable THEN tokenizer.tokens
                         ELSE Len(FullPrompt(request.content, request.prompt)) \div 4

\* Position of a file in the order the folder traversal discovers files.
DiscoveryIndex(p) == IndexOf(FileUniverse, p)

\* A list of documents is in ascending modification time, documents of equal
\* time in discovery order.
OldestFirst(docs) ==
    \A j, k \in 1..Len(docs) :
        j < k => /\ fs[docs[j][2]] <= fs[docs[k][2]]
                 /\ fs[docs[j][2]] = fs[docs[k][2]]
                       => DiscoveryIndex(docs[j][2]) < DiscoveryIndex(docs[k][2])

\* C15: with no cursor the backlog is all the documents of the folder, each
\* once, in ascending modification time (strictly, when the times differ), and
\* documents with the same time keep their discovery order; a run's backlog
\* is in that order.
C15_BacklogOrder ==
    /\ pc = "idle" =>
          LET all == GetInputFiles(fs, InFolder, None, None)
          IN  /\ Range(all) = {StrVal(p) : p \in {q \in MdFiles : fs[q] > 0}}
              /\ Len(all) = NumDocs(fs)
              /\ OldestFirst(all)
    /\ JustEnumerated =>
          /\ OldestFirst(files_to_process)
          /\ last_processed = None
                => /\ Len(files_to_process) = NumDocs(fs)
                   /\ \A p \in MdFiles : fs[p] > 0 => StrVal(p) \in Range(files_to_process)

C15_Witness ==
    /\ pc = "read" /\ i = 0
    /\ last_processed = None
    /\ Len(files_to_process) = 3
    /\ fs[files_to_process[1][2]] = fs[files_to_process[2][2]]
    /\ fs[files_to_process[2][2]] < fs[files_to_process[3][2]]
    /\ DiscoveryIndex(files_to_process[3][2]) < DiscoveryIndex(files_to_process[1][2])

\* The k-th batch of the run (k = 1, 2, ...).
BatchNo(k) == Slice(files_to_process, (k - 1) * batch_size, batch_size)

\* The number of documents the run's checkpointed batches cover.
Checkpointed ==
    IF ckpts * batch_size < Len(files_to_process) THEN ckpts * batch_size
    ELSE Len(files_to_process)

C16_Prefix ==
    ckpts >= 1 =>
        /\ calls >= ckpts /\ saves >= ckpts
        /\ reads >= Checkpointed
        /\ \A k \in 1..ckpts : GenerateBatchFilename(BatchNo(k)) \in ArtifactNames
        /\ IsJsonObject(cfgFile) => StoredCursor(cfgFile) = files_to_process[Checkpointed]

C16_CheckpointStep ==
    (cfgFile' # cfgFile /\ IsJsonObject(cfgFile')) =>
        /\ pc = "dump"
        /\ StoredCursor(cfgFile') = batch[Len(batch)]
        /\ calls = ckpts + 1 /\ saves = ckpts + 1
        /\ output = <<provider[1], prompt, batch>>
        /\ <<GenerateBatchFilename(batch), output>> \in outputs
        /\ ckpts' = ckpts + 1

\* C16: a complete config is written only as the last step of a batch whose
\* Provider.process call returned and whose artifact, holding that response,
\* is in the output folder; so when the run has advanced the checkpoint k
\* times, batches 1..k were each processed and saved, the stored cursor is the
\* last document of batch k, and the checkpointed documents are the first
\* documents of the backlog without a gap.
C16_ArtifactPrecedesCheckpoint == []C16_Prefix /\ [][C16_CheckpointStep]_vars

C16_Witness ==
    /\ ckpts = 2
    /\ pc = "done" /\ outcome = "completed"
    /\ batch_size = 1
    /\ Cardinality(outputs) = 2
    /\ StoredCursor(cfgFile) = files_to_process[2]

\* The number of batches of the run's backlog.
NumBatches == (Len(files_to_process) + batch_size - 1) \div batch_size

\* C17: when two checkpointed batches of a run have the same artifact name
\* (in/a.md and in/sub/a.md, one document each), and no later batch has it
\* too, the output folder holds one file of that name and its text is the
\* response of the later batch; the checkpoint has advanced past both; and no
\* name is ever held by two files.
C17_CollisionOverwrites ==
    /\ \A o1, o2 \in outputs : o1[1] = o2[1] => o1 = o2
    /\ \A k, l \in 1..ckpts :
          (/\ k < l
           /\ GenerateBatchFilename(BatchNo(k)) = GenerateBatchFilename(BatchNo(l))
           /\ \A m \in (l + 1)..NumBatches :
                  GenerateBatchFilename(BatchNo(m)) # GenerateBatchFilename(BatchNo(l)))
          => /\ {o \in outputs : o[1] = GenerateBatchFilename(BatchNo(l))}
                   = {<<GenerateBatchFilename(BatchNo(l)),
                        <<provider[1], prompt, BatchNo(l)>> >>}
             /\ (IsJsonObject(cfgFile) /\ l = ckpts)
                   => StoredCursor(cfgFile) = BatchNo(l)[Len(BatchNo(l))]

C17_Witness ==
    /\ pc = "done" /\ outcome = "completed"
    /\ ckpts = 2
    /\ files_to_process = <<StrVal(<<"in", "sub", "a", "md">>), StrVal(<<"in", "a", "md">>)>>
    /\ outputs = {<<"a.txt", <<provider[1], prompt, <<StrVal(<<"in", "a", "md">>)>> >> >>}
    /\ StoredCursor(cfgFile) = StrVal(<<"in", "a", "md">>)

\* C18: with the folder and the config unchanged but for the cursor, and runs
\* repeated so that no batch fails forever, the config file eventually holds
\* the newest document of the folder as its cursor.
C18_EventualCompletion ==
    <>(SortedDocuments # <<>>
          => /\ IsJsonObject(cfgFile)
             /\ StoredCursor(cfgFile) = SortedDocuments[Len(SortedDocuments)])

\* ceil(n / b) for the run's backlog and its effective batch size.
MaxCalls ==
    LET b == IF max_batch_size[1] = "int" /\ max_batch_size[2] > 0
             THEN max_batch_size[2] ELSE 1
    IN  (Len(files_to_process) + b - 1) \div b

C19_Bounded ==
    /\ calls <= MaxCalls
    /\ reads <= Len(files_to_process)
    /\ \A o \in outputs : o[2] # <<>> => Range(o[2][3]) \subseteq Range(files_to_process)

C19_SnapshotStep ==
    Enumerated =>
        /\ pc' # "enumerate"
        /\ files_to_process' = files_to_process
        /\ batch_size' = batch_size
        /\ \A p \in MdFiles :
              (fs[p] = 0 /\ fs'[p] > 0) => StrVal(p) \notin Range(files_to_process')

\* C19: a run lists the folder once; from then on its backlog of n documents
\* and its batch size b stay as they are, whatever is added to the folder; it
\* calls Provider.process at most ceil(n / b) times, reads and saves documents
\* of that backlog only, and, every operation returning or raising, it ends.
C19_RunTerminates ==
    /\ []C19_Bounded
    /\ [][C19_SnapshotStep]_vars
    /\ (pc = "load") ~> (pc = "done")

C19_Witness ==
    /\ pc = "done" /\ outcome = "completed"
    /\ last_processed = None
    /\ Len(files_to_process) = 2
    /\ NumDocs(fs) = 3
    /\ batch_size = 2
    /\ calls = 1 /\ reads = 2
    /\ Cardinality(outputs) = 1

====
